---------------------------- MODULE Spec2Model ----------------------------
(***************************************************************************)
(* Img2PPT: the App component (processImages, handleDownload, handleClear, *)
(* handleFilesSelected) and the layout reconstruction of pptService.ts     *)
(* (cleanHex, calculateFontSize, generatePPT).                             *)
(*                                                                         *)
(* Numbers of the layout code are JavaScript doubles; they are modelled as *)
(* exact rationals <<n, d>> (d > 0, lowest terms).  Strings are sequences  *)
(* of one-character strings, so that replace, trim, split, substring and   *)
(* parseInt are computed character by character.                           *)
(***************************************************************************)
EXTENDS Integers, Sequences, FiniteSets, TLC

VARIABLES items, step, progress, runs, presses, crashed, download, ppt,
          event, hexIn, hexOut, fontIn, fontOut, boxIn, boxOut

vars == <<items, step, progress, runs, presses, crashed, download, ppt,
          event, hexIn, hexOut, fontIn, fontOut, boxIn, boxOut>>

appVars == <<items, step, progress, runs, presses, crashed, download, ppt,
             event>>
hexVars == <<hexIn, hexOut>>
fontVars == <<fontIn, fontOut>>
boxVars == <<boxIn, boxOut>>

(***************************************************************************)
(* Bounds of the model.                                                    *)
(***************************************************************************)
MaxHexLen == 6
MaxHeightSteps == 12
MaxLines == 3

(***************************************************************************)
(* Exact rational arithmetic standing for JavaScript numbers.              *)
(***************************************************************************)
Abs(n) == IF n < 0 THEN -n ELSE n

RECURSIVE GCD(_, _)
GCD(a, b) == IF b = 0 THEN a ELSE GCD(b, a % b)

RNorm(n, d) ==
  LET s == IF d < 0 THEN -1 ELSE 1
      g == GCD(Abs(n), Abs(d))
  IN  IF n = 0 THEN <<0, 1>> ELSE <<(s * n) \div g, (s * d) \div g>>

R(n) == <<n, 1>>
RAdd(a, b) == RNorm(a[1] * b[2] + b[1] * a[2], a[2] * b[2])
RSub(a, b) == RNorm(a[1] * b[2] - b[1] * a[2], a[2] * b[2])
RMul(a, b) == RNorm(a[1] * b[1], a[2] * b[2])
RDiv(a, b) == RNorm(a[1] * b[2], a[2] * b[1])
RLt(a, b) == a[1] * b[2] < b[1] * a[2]
RLe(a, b) == a[1] * b[2] <= b[1] * a[2]
RMax(a, b) == IF RLt(a, b) THEN b ELSE a

(***************************************************************************)
(* Strings.                                                                *)
(***************************************************************************)
\* An optional value (a property that may be undefined): None or Some(v).
None == <<>>
Some(v) == <<v>>
Str000000 == <<"0", "0", "0", "0", "0", "0">>
StrFFFFFF == <<"F", "F", "F", "F", "F", "F">>
Str888888 == <<"8", "8", "8", "8", "8", "8">>

IsSpace(c) == c \in {" ", "\t", "\n"}

\* String.prototype.replace(ch, ''): drops the first occurrence of ch only.
RECURSIVE ReplaceFirst(_, _)
ReplaceFirst(s, ch) ==
  IF s = <<>> THEN <<>>
  ELSE IF Head(s) = ch THEN Tail(s)
  ELSE <<Head(s)>> \o ReplaceFirst(Tail(s), ch)

RECURSIVE TrimStart(_)
TrimStart(s) ==
  IF s = <<>> THEN <<>>
  ELSE IF IsSpace(Head(s)) THEN TrimStart(Tail(s)) ELSE s

RECURSIVE TrimEnd(_)
TrimEnd(s) ==
  IF s = <<>> THEN <<>>
  ELSE IF IsSpace(s[Len(s)]) THEN TrimEnd(SubSeq(s, 1, Len(s) - 1)) ELSE s

Trim(s) == TrimEnd(TrimStart(s))

\* String.prototype.substring(a, b) with 0 <= a <= b, clipped to the length.
Substring(s, a, b) ==
  LET lo == IF a > Len(s) THEN Len(s) ELSE a
      hi == IF b > Len(s) THEN Len(s) ELSE b
  IN  SubSeq(s, lo + 1, hi)

HexVal(c) ==
  CASE c = "0" -> 0 [] c = "1" -> 1 [] c = "2" -> 2 [] c = "3" -> 3
    [] c = "4" -> 4 [] c = "5" -> 5 [] c = "6" -> 6 [] c = "7" -> 7
    [] c = "8" -> 8 [] c = "9" -> 9
    [] c \in {"a", "A"} -> 10 [] c \in {"b", "B"} -> 11
    [] c \in {"c", "C"} -> 12 [] c \in {"d", "D"} -> 13
    [] c \in {"e", "E"} -> 14 [] c \in {"f", "F"} -> 15
    [] OTHER -> -1

\* The value of the longest prefix of hex digits of s, continuing from acc;
\* n counts the digits read.
RECURSIVE HexPrefix(_, _, _)
HexPrefix(s, acc, n) ==
  IF s = <<>> \/ HexVal(Head(s)) < 0 THEN <<n, acc>>
  ELSE HexPrefix(Tail(s), acc * 16 + HexVal(Head(s)), n + 1)

\* parseInt(s, 16): leading white space is skipped, then an optional sign and
\* an optional 0x, then the longest prefix of hex digits; NaN when that
\* prefix is empty.  The result is [nan, val].
ParseInt16(s) ==
  LET t == TrimStart(s)
      neg == t # <<>> /\ Head(t) = "-"
      u == IF t # <<>> /\ Head(t) \in {"-", "+"} THEN Tail(t) ELSE t
      v == IF Len(u) >= 2 /\ u[1] = "0" /\ u[2] \in {"x", "X"}
             THEN SubSeq(u, 3, Len(u)) ELSE u
      p == HexPrefix(v, 0, 0)
  IN  IF p[1] = 0 THEN [nan |-> TRUE, val |-> 0]
      ELSE [nan |-> FALSE, val |-> IF neg THEN -p[2] ELSE p[2]]

\* clean.split('').map(c => c + c).join('')
RECURSIVE DoubleChars(_)
DoubleChars(s) ==
  IF s = <<>> THEN <<>> ELSE <<Head(s), Head(s)>> \o DoubleChars(Tail(s))

\* hex is None (undefined) or Some(string); both undefined and "" are falsy.
cleanHex(hex) ==
  IF hex = None \/ hex = Some(<<>>) THEN Str000000
  ELSE LET c0 == Trim(ReplaceFirst(hex[1], "#"))
           clean == IF Len(c0) = 3 THEN DoubleChars(c0) ELSE c0
           r == ParseInt16(Substring(clean, 0, 2))
           g == ParseInt16(Substring(clean, 2, 4))
           b == ParseInt16(Substring(clean, 4, 6))
       IN  IF r.nan \/ g.nan \/ b.nan THEN Str000000
           ELSE IF r.val > 240 /\ g.val > 240 /\ b.val > 240 THEN StrFFFFFF
           ELSE IF r.val < 15 /\ g.val < 15 /\ b.val < 15 THEN Str000000
           ELSE clean

(***************************************************************************)
(* calculateFontSize                                                       *)
(***************************************************************************)
RECURSIVE CountChar(_, _)
CountChar(s, ch) ==
  IF s = <<>> THEN 0
  ELSE (IF Head(s) = ch THEN 1 ELSE 0) + CountChar(Tail(s), ch)

\* el.text.split('\n').length
SplitLines(text) == CountChar(text, "\n") + 1

MIN_FONT_PT == 9
POINTS_PER_INCH == 72

fillRatio(el) == IF el.hasContainer THEN RNorm(70, 100) ELSE RNorm(85, 100)

\* Bold text sized like normal text.
boldFactorNone(el) == R(1)

\* Lines 80-82: size * 0.95 for bold text.
boldFactor(el) == IF el.fontWeight = "bold" THEN RNorm(95, 100) ELSE R(1)

\* A clamp that was left out.
clampMinMissing(size) == size

clampMin(size) == RMax(R(MIN_FONT_PT), size)

calculateFontSize(el, boxHeightInInches) ==
  LET boxHeightPoints == RMul(boxHeightInInches, R(POINTS_PER_INCH))
      lines == SplitLines(el.text)
      heightPerLine == RDiv(boxHeightPoints, R(lines))
      size0 == RMul(heightPerLine, fillRatio(el))
      size1 == RMul(size0, boldFactor(el))
  IN  clampMin(size1)

getFontMap(family) ==
  CASE family = "serif" -> "Times New Roman"
    [] family = "monospace" -> "Courier New"
    [] family = "handwriting" -> "Segoe Print"
    [] OTHER -> "Arial"

(***************************************************************************)
(* generatePPT                                                             *)
(*                                                                         *)
(* A DetectedTextElement is a record text, box_2d, textColor,              *)
(* hasContainer, containerColor, containerOpacity, strokeColor,            *)
(* fontFamily, fontWeight, fontStyle, alignment.  The optional properties  *)
(* are None or Some(v); box_2d is optional too, because the detection      *)
(* result is the unvalidated JSON.parse of the service's answer.           *)
(***************************************************************************)
SLIDE_WIDTH_IN == 10
REGION_SCALE == 1000

\* JavaScript truthiness of a number: neither 0 nor NaN.
TruthyNum(n) == n # 0

\* validImages, as positions of processedImages.
RECURSIVE validFrom(_, _)
validFrom(images, i) ==
  IF i > Len(images) THEN <<>>
  ELSE (IF /\ images[i].status = "completed"
           /\ TruthyNum(images[i].width)
           /\ TruthyNum(images[i].height)
          THEN <<i>> ELSE <<>>) \o validFrom(images, i + 1)

validImages(images) == validFrom(images, 1)

\* SLIDE_HEIGHT_IN, from the image whose position is given.
slideHeightOf(img) ==
  LET aspectRatio == RNorm(img.width, img.height)
  IN  RDiv(R(SLIDE_WIDTH_IN), aspectRatio)

\* The image the presentation's layout is computed from.
layoutImage(images) == images[validImages(images)[1]]

\* Destructuring el.box_2d raises a TypeError when the property is missing.
elementThrows(el) == el.box_2d = None

containerFillColor(el) ==
  LET c == cleanHex(el.containerColor)
  IN  IF c = <<>> THEN StrFFFFFF ELSE c

containerTransparency(el) ==
  IF el.containerOpacity # None
    THEN RMul(RSub(R(1), el.containerOpacity[1]), R(100))
    ELSE R(0)

containerPadX(w) == RMax(<<1, 20>>, RMul(w, <<1, 20>>))
containerPadY(h) == RMax(<<1, 50>>, RMul(h, <<1, 20>>))
\* Raw text left at its projected size.
rawInflateNone(d) == d

\* Lines 185-186: w * 1.05, h * 1.05.
rawInflate(d) == RMul(d, <<21, 20>>)

\* The region read as xmin, ymin, xmax, ymax.
projectedBoxSwapped(el, slideW, slideH) ==
  LET xmin == el.box_2d[1][1]
      ymin == el.box_2d[1][2]
      xmax == el.box_2d[1][3]
      ymax == el.box_2d[1][4]
  IN  [x |-> RMul(RNorm(xmin, REGION_SCALE), slideW),
       y |-> RMul(RNorm(ymin, REGION_SCALE), slideH),
       w |-> RMul(RNorm(xmax - xmin, REGION_SCALE), slideW),
       h |-> RMul(RNorm(ymax - ymin, REGION_SCALE), slideH)]

\* x, y, w, h of lines 146-151: the region projected on the canvas.
projectedBox(el, slideW, slideH) ==
  LET ymin == el.box_2d[1][1]
      xmin == el.box_2d[1][2]
      ymax == el.box_2d[1][3]
      xmax == el.box_2d[1][4]
  IN  [x |-> RMul(RNorm(xmin, REGION_SCALE), slideW),
       y |-> RMul(RNorm(ymin, REGION_SCALE), slideH),
       w |-> RMul(RNorm(xmax - xmin, REGION_SCALE), slideW),
       h |-> RMul(RNorm(ymax - ymin, REGION_SCALE), slideH)]

\* x, y, w, h after the conditional inflation of lines 159-187.
inflatedBox(el, p) ==
  IF el.hasContainer
    THEN LET padX == containerPadX(p.w)
             padY == containerPadY(p.h)
         IN  [x |-> RSub(p.x, padX), y |-> RSub(p.y, padY),
              w |-> RAdd(p.w, RMul(padX, R(2))),
              h |-> RAdd(p.h, RMul(padY, R(2)))]
    ELSE [x |-> p.x, y |-> p.y, w |-> rawInflate(p.w), h |-> rawInflate(p.h)]

\* The container styles given to every element that has a containerColor.
containerStyleByColor(el) ==
  IF el.containerColor # None
    THEN [shape |-> Some("roundRect"),
          rectRadius |-> Some(<<1, 10>>),
          fill |-> Some([color |-> containerFillColor(el),
                         transparency |-> containerTransparency(el)]),
          line |-> Some([color |-> Str888888, width |-> <<1, 2>>,
                         transparency |-> 50]),
          shadow |-> Some([type |-> "outer", color |-> Str000000,
                           opacity |-> <<3, 10>>, blur |-> 3, offset |-> 2])]
    ELSE [shape |-> None, rectRadius |-> None, fill |-> None, line |-> None,
          shadow |-> None]

\* Lines 155-157, 175-181 and 215-221: fillProps, shadowProps and the shape
\* properties of textOptions.
containerStyle(el) ==
  IF el.hasContainer
    THEN [shape |-> Some("roundRect"),
          rectRadius |-> Some(<<1, 10>>),
          fill |-> Some([color |-> containerFillColor(el),
                         transparency |-> containerTransparency(el)]),
          line |-> Some([color |-> Str888888, width |-> <<1, 2>>,
                         transparency |-> 50]),
          shadow |-> Some([type |-> "outer", color |-> Str000000,
                           opacity |-> <<3, 10>>, blur |-> 3, offset |-> 2])]
    ELSE [shape |-> None, rectRadius |-> None, fill |-> None, line |-> None,
          shadow |-> None]

outlineOf(el) ==
  IF el.strokeColor # None /\ el.strokeColor # Some(<<>>)
    THEN Some([color |-> cleanHex(el.strokeColor), size |-> <<3, 4>>])
    ELSE None

\* The arguments of slide.addText(el.text, textOptions), for one element.
textBox(el, slideW, slideH) ==
  LET b == inflatedBox(el, projectedBox(el, slideW, slideH))
      st == containerStyle(el)
  IN  [kind |-> "text", text |-> el.text,
       x |-> b.x, y |-> b.y, w |-> b.w, h |-> b.h,
       fontSize |-> calculateFontSize(el, b.h),
       color |-> cleanHex(Some(el.textColor)),
       align |-> el.alignment,
       fontFace |-> getFontMap(el.fontFamily),
       valign |-> "middle",
       margin |-> IF el.hasContainer THEN 2 ELSE 0,
       wrap |-> TRUE,
       bold |-> el.fontWeight = "bold",
       italic |-> el.fontStyle = "italic",
       shape |-> st.shape, rectRadius |-> st.rectRadius, fill |-> st.fill,
       line |-> st.line, shadow |-> st.shadow,
       outline |-> outlineOf(el)]

\* What fileToBase64(file) resolves to, and what the cleaning call resolves to.
originalData(file) == [from |-> "original", file |-> file]
cleanedData(file) == [from |-> "cleaned", file |-> file]

\* fileToBase64(imgData.file) rejects when the reader fails (readFails holds
\* the positions where it does) and when the item has no file.
readRejects(images, i, readFails) == i \in readFails \/ images[i].file = None

\* Lines 122-142: the objects the try block adds to the slide.
backgroundObjects(images, i, slideH, readFails) ==
  LET img == images[i]
      bg(data) == [kind |-> "image", data |-> data, x |-> 0, y |-> 0,
                   w |-> "100%", h |-> "100%",
                   sizing |-> [type |-> "contain", w |-> R(SLIDE_WIDTH_IN),
                               h |-> slideH]]
  IN  IF img.cleanBackgroundBase64 # None
        THEN <<bg(img.cleanBackgroundBase64[1])>>
        ELSE IF readRejects(images, i, readFails) THEN <<>>
        ELSE <<bg(originalData(img.file[1]))>>

\* The text boxes added last element first.
RECURSIVE textBoxesReversed(_, _, _)
textBoxesReversed(els, slideW, slideH) ==
  IF els = <<>> THEN <<>>
  ELSE textBoxesReversed(Tail(els), slideW, slideH)
         \o <<textBox(Head(els), slideW, slideH)>>

\* Lines 145-236: elements.forEach adds one text box per element.
RECURSIVE textBoxes(_, _, _)
textBoxes(els, slideW, slideH) ==
  IF els = <<>> THEN <<>>
  ELSE <<textBox(Head(els), slideW, slideH)>>
         \o textBoxes(Tail(els), slideW, slideH)

\* One iteration of the loop over validImages that reaches addSlide: the
\* slide, tagged with the position of its image in processedImages.
buildSlide(images, i, slideH, readFails) ==
  [source |-> i,
   canvasW |-> R(SLIDE_WIDTH_IN),
   canvasH |-> slideH,
   objects |-> backgroundObjects(images, i, slideH, readFails)
                 \o textBoxes(images[i].elements[1], R(SLIDE_WIDTH_IN), slideH)]

imageThrows(img) ==
  /\ img.elements # None
  /\ \E k \in 1..Len(img.elements[1]) : elementThrows(img.elements[1][k])

\* The loop of lines 117-237 over the positions v, when no element throws.
RECURSIVE slidesOf(_, _, _, _)
slidesOf(images, v, slideH, readFails) ==
  IF v = <<>> THEN <<>>
  ELSE (IF images[Head(v)].elements = None THEN <<>>
        ELSE <<buildSlide(images, Head(v), slideH, readFails)>>)
       \o slidesOf(images, Tail(v), slideH, readFails)

\* generatePPT(processedImages): outcome "nothing" (line 104), "threw" (an
\* exception left the loop, writeFile was never called) or "written", with
\* the slides of the file written.
generatePPT(images, readFails) ==
  LET v == validImages(images)
  IN  IF v = <<>>
        THEN [outcome |-> "nothing", layout |-> None, slides |-> <<>>]
      ELSE LET slideH == slideHeightOf(layoutImage(images))
               layout == Some([width |-> R(SLIDE_WIDTH_IN), height |-> slideH])
           IN  IF \E k \in 1..Len(v) : imageThrows(images[v[k]])
                 THEN [outcome |-> "threw", layout |-> layout, slides |-> <<>>]
                 ELSE [outcome |-> "written", layout |-> layout,
                       slides |-> slidesOf(images, v, slideH, readFails)]

(***************************************************************************)
(* The App component's state before anything is dropped on it.             *)
(***************************************************************************)
AppIdle ==
  /\ items = <<>>
  /\ step = "IDLE"
  /\ progress = [current |-> 0, total |-> 0]
  /\ runs = <<>>
  /\ presses = 0
  /\ crashed = FALSE
  /\ download = None
  /\ ppt = None
  /\ event = None

HexIdle == hexIn = None /\ hexOut = None
FontIdle == fontIn = None /\ fontOut = None
BoxIdle == boxIn = None /\ boxOut = None

(***************************************************************************)
(* SpecHex: cleanHex applied to every string of at most MaxHexLen          *)
(* characters over HexAlphabet, and to undefined.                          *)
(***************************************************************************)
HexAlphabet == {"#", " ", "0", "f", "F", "g"}

HexStrings == UNION {[1..n -> HexAlphabet] : n \in 0..MaxHexLen}

InitHex ==
  /\ AppIdle /\ FontIdle /\ BoxIdle
  /\ hexIn \in {None} \cup {Some(s) : s \in HexStrings}
  /\ hexOut = None

CleanHexCall ==
  /\ hexOut = None
  /\ hexOut' = Some(cleanHex(hexIn))
  /\ UNCHANGED <<appVars, hexIn, fontVars, boxVars>>

NextHex == CleanHexCall

SpecHex == InitHex /\ [][NextHex]_vars

(***************************************************************************)
(* SpecFont: calculateFontSize applied to elements of 1..MaxLines lines,   *)
(* bold or not, with a container or not, and box heights k/16 inch for     *)
(* k in -2..MaxHeightSteps.                                                *)
(***************************************************************************)
RECURSIVE TextOfLines(_)
TextOfLines(n) ==
  IF n <= 1 THEN <<"a">> ELSE <<"a", "\n">> \o TextOfLines(n - 1)

FontElements ==
  {[text |-> TextOfLines(n), hasContainer |-> c, fontWeight |-> wt] :
     n \in 1..MaxLines, c \in BOOLEAN, wt \in {"bold", "normal"}}

FontHeights == {RNorm(k, 16) : k \in -2..MaxHeightSteps}

InitFont ==
  /\ AppIdle /\ HexIdle /\ BoxIdle
  /\ fontIn \in {Some([el |-> e, h |-> h]) : e \in FontElements, h \in FontHeights}
  /\ fontOut = None

CalculateFontSizeCall ==
  /\ fontOut = None
  /\ fontOut' = Some(calculateFontSize(fontIn[1].el, fontIn[1].h))
  /\ UNCHANGED <<appVars, hexVars, fontIn, boxVars>>

NextFont == CalculateFontSizeCall

SpecFont == InitFont /\ [][NextFont]_vars

(***************************************************************************)
(* The App component.                                                      *)
(*                                                                         *)
(* items is the React state `items`.  An item is a record file, status,    *)
(* width, height, elements, cleanBackgroundBase64; a slot of a sparse      *)
(* array that holds nothing has status "hole".  A file is a record name,   *)
(* w, h (the natural size of its preview image) and loads (whether the     *)
(* preview image's load event ever fires).                                 *)
(*                                                                         *)
(* runs holds the processImages calls that have not returned.  A run keeps *)
(* snap, its updatedItems: per slot the file of the object it captured     *)
(* and st, "live" while that object is still the one in items (so that the *)
(* in-place writes of status show through) and otherwise what line 67 can  *)
(* tell of the status the object had when it was replaced, "completed" or  *)
(* "other"; a slot the run will not read again is "spent".  revoked:       *)
(* whether handleClear revoked the preview URLs of its objects; base: the  *)
(* first slot of the batch in progress; pcs: per task of that batch "done",*)
(* "awaiting" (the image load and then the two service calls) or "stuck"   *)
(* (the load event never fires).                                           *)
(*                                                                         *)
(* event is the task that has just settled (None otherwise): its slot,    *)
(* what the detection call resolved with (None when it rejected) and       *)
(* whether the cleaning call resolved.                                     *)
(*                                                                         *)
(* presses counts the presses of the Process, Download and Clear buttons.  *)
(*                                                                         *)
(* download is the generatePPT call under way and ppt the call that has    *)
(* just settled (None otherwise): a call is its argument, images, and the  *)
(* positions readFails where fileToBase64 rejects; presentation is what    *)
(* the settled call returned.                                              *)
(***************************************************************************)
BATCH_SIZE == 3
MaxItems == 2
MaxPresses == 2

fileWide == [name |-> "wide.png", w |-> 1600, h |-> 900, loads |-> TRUE]
fileBroken == [name |-> "broken.png", w |-> 0, h |-> 0, loads |-> FALSE]

AppFiles == {fileWide, fileBroken}

newItem(file) ==
  [file |-> Some(file), status |-> "pending", width |-> 0, height |-> 0,
   elements |-> None, cleanBackgroundBase64 |-> None]

holeItem ==
  [file |-> None, status |-> "hole", width |-> 0, height |-> 0,
   elements |-> None, cleanBackgroundBase64 |-> None]

\* The array whose entries are those of f, each one computed when the array
\* is made.
asArray(f) == SubSeq(f, 1, Len(f))

Min(a, b) == IF a < b THEN a ELSE b

hasHole(its) == \E g \in 1..Len(its) : its[g].status = "hole"

\* The buttons' conditions (lines 143-144); some() passes over holes.
canProcess ==
  /\ Len(items) > 0
  /\ \E g \in 1..Len(items) : items[g].status \in {"pending", "error"}

canDownload == \E g \in 1..Len(items) : items[g].status = "completed"

(***************************************************************************)
(* handleFilesSelected (lines 22-33), reached through the Dropzone, which  *)
(* is disabled while step is ANALYZING or GENERATING.  Spreading prev      *)
(* turns holes into undefined entries, on which the next render throws.    *)
(***************************************************************************)
HandleFilesSelected ==
  /\ ~crashed
  /\ step \notin {"ANALYZING", "GENERATING"}
  /\ Len(items) < MaxItems
  /\ \E n \in 1..(MaxItems - Len(items)) :
       \E files \in [1..n -> AppFiles] :
         IF hasHole(items)
           THEN crashed' = TRUE /\ UNCHANGED items
           ELSE /\ items' = items \o asArray([k \in 1..n |-> newItem(files[k])])
                /\ UNCHANGED crashed
  /\ ppt' = None
  /\ event' = None
  /\ UNCHANGED <<step, progress, runs, download, presses, hexVars, fontVars, boxVars>>

(***************************************************************************)
(* handleClear (lines 35-41); the button is disabled only while step is   *)
(* ANALYZING.  The objects the active runs captured stay as they are, with *)
(* their preview URLs revoked.                                             *)
(***************************************************************************)
frozen(status) == IF status = "completed" THEN "completed" ELSE "other"

spentEntry == [file |-> None, st |-> "spent"]

freezeAll(run) ==
  [run EXCEPT
     !.revoked = TRUE,
     !.snap = asArray([g \in 1..Len(run.snap) |->
                 IF run.snap[g].st = "live"
                   THEN [run.snap[g] EXCEPT !.st = frozen(items[g].status)]
                   ELSE run.snap[g]])]

HandleClear ==
  /\ ~crashed
  /\ Len(items) > 0
  /\ step # "ANALYZING"
  /\ presses < MaxPresses
  /\ presses' = presses + 1
  /\ items' = <<>>
  /\ step' = "IDLE"
  /\ progress' = [current |-> 0, total |-> 0]
  /\ runs' = asArray([r \in 1..Len(runs) |-> freezeAll(runs[r])])
  /\ ppt' = None
  /\ event' = None
  /\ UNCHANGED <<crashed, download, hexVars, fontVars, boxVars>>

(***************************************************************************)
(* Detection results the services may give.                                *)
(***************************************************************************)
elPlain ==
  [text |-> <<"H", "i">>, box_2d |-> Some(<<500, 100, 600, 900>>),
   textColor |-> <<"#", "1", "2", "3", "4", "5", "6">>,
   hasContainer |-> FALSE, containerColor |-> None,
   containerOpacity |-> None, strokeColor |-> None,
   fontFamily |-> "serif", fontWeight |-> "normal",
   fontStyle |-> "normal", alignment |-> "left"]

elBox ==
  [text |-> <<"H", "e", "l", "l", "o", "\n", "W", "o", "r", "l", "d">>,
   box_2d |-> Some(<<100, 100, 300, 400>>),
   textColor |-> <<"0", "0", "0">>,
   hasContainer |-> TRUE, containerColor |-> Some(<<"#", "F", "F", "F">>),
   containerOpacity |-> Some(R(1)), strokeColor |-> None,
   fontFamily |-> "sans-serif", fontWeight |-> "bold",
   fontStyle |-> "normal", alignment |-> "center"]

\* A container whose colour the service left out.
elBoxNoColor ==
  [elBox EXCEPT !.containerColor = None, !.containerOpacity = None,
                !.text = <<"O", "k">>, !.fontWeight = "normal"]

\* A descriptor without box_2d.
elBroken == [elPlain EXCEPT !.box_2d = None]

AppDetections == {<<elBox, elPlain>>}

(***************************************************************************)
(* processImages (lines 43-129).                                           *)
(***************************************************************************)
snapStatus(its, run, g) ==
  IF run.snap[g].st = "live" THEN frozen(its[g].status) ELSE run.snap[g].st

\* Whether the load event of the task's preview image fires (line 80).
taskLoads(run, g) ==
  /\ ~run.revoked
  /\ run.snap[g].file # None
  /\ run.snap[g].file[1].loads

\* Line 67, negated: the task goes on unless its captured object is completed.
notSkipped(its, run, g) == snapStatus(its, run, g) # "completed"

\* The for loop from the batch at slot base on: batches whose tasks all
\* return at line 67 are passed over in the same turn; the first batch with
\* a task to run marks its items 'processing' (lines 70-74, written in place
\* into the object now in the slot) and waits.  fin: the loop is over;
\* crash: an updater found no object in its slot, or a sparse array.
RECURSIVE startBatches(_, _, _)
startBatches(its, run, base) ==
  IF base > Len(run.snap)
    THEN [items |-> its, run |-> run, fin |-> TRUE, crash |-> FALSE]
  ELSE LET last == Min(base + BATCH_SIZE - 1, Len(run.snap))
           active == {g \in base..last : notSkipped(its, run, g)}
       IN  IF active = {} THEN startBatches(its, run, base + BATCH_SIZE)
           ELSE IF hasHole(its) \/ \E g \in active : g > Len(its)
             THEN [items |-> its, run |-> run, fin |-> FALSE, crash |-> TRUE]
           ELSE [items |-> asArray([g \in 1..Len(its) |->
                              IF g \in active
                                THEN [its[g] EXCEPT !.status = "processing"]
                                ELSE its[g]]),
                 run |-> [run EXCEPT
                            !.base = base,
                            !.pcs = asArray([k \in 1..(last - base + 1) |->
                                       IF (base + k - 1) \notin active THEN "done"
                                       ELSE IF taskLoads(run, base + k - 1)
                                         THEN "awaiting" ELSE "stuck"]),
                            !.snap = asArray([g \in 1..Len(run.snap) |->
                                        IF g < base \/ g > last THEN run.snap[g]
                                        ELSE IF g \in active /\ taskLoads(run, g)
                                          THEN [run.snap[g] EXCEPT !.st = "spent"]
                                        ELSE spentEntry])],
                 fin |-> FALSE, crash |-> FALSE]

removeRun(rs, r) == SubSeq(rs, 1, r - 1) \o SubSeq(rs, r + 1, Len(rs))

\* The Process button (lines 243-251): shown when canProcess, and not
\* disabled while a run is active.  An API key is taken to be present.
ProcessImages ==
  /\ ~crashed
  /\ canProcess
  /\ presses < MaxPresses
  /\ presses' = presses + 1
  /\ LET run0 == [snap |-> asArray([g \in 1..Len(items) |->
                              [file |-> items[g].file, st |-> "live"]]),
                  revoked |-> FALSE, base |-> 1, pcs |-> <<>>]
         res == startBatches(items, run0, 1)
     IN  IF res.crash
           THEN /\ crashed' = TRUE
                /\ UNCHANGED <<items, step, progress, runs>>
           ELSE /\ items' = res.items
                /\ step' = IF res.fin THEN "DONE" ELSE "ANALYZING"
                /\ progress' = [current |-> 0, total |-> Len(items)]
                /\ runs' = IF res.fin THEN runs ELSE Append(runs, res.run)
                /\ UNCHANGED crashed
  /\ ppt' = None
  /\ event' = None
  /\ UNCHANGED <<download, hexVars, fontVars, boxVars>>

\* A completion that counts a missing cleaned background as a failure.
completedItemNeedsBackground(its, g, file, els, bg) ==
  LET old == IF g <= Len(its) THEN its[g] ELSE holeItem
  IN  [old EXCEPT !.status = IF bg = None THEN "error" ELSE "completed",
                  !.elements = IF bg = None THEN None ELSE Some(els),
                  !.cleanBackgroundBase64 = bg,
                  !.width = file.w, !.height = file.h]

\* The object a completion (lines 100-111) leaves in slot g.
completedItem(its, g, file, els, bg) ==
  LET old == IF g <= Len(its) THEN its[g] ELSE holeItem
  IN  [old EXCEPT !.status = "completed", !.elements = Some(els),
                  !.cleanBackgroundBase64 = bg,
                  !.width = file.w, !.height = file.h]

\* items after copy[g] = {...}: an assignment past the end leaves holes.
assignSlot(its, g, it) ==
  asArray([j \in 1..(IF g > Len(its) THEN g ELSE Len(its)) |->
     IF j = g THEN it ELSE IF j <= Len(its) THEN its[j] ELSE holeItem])

\* Every run that captured the object in slot g keeps that object as it is.
freezeSlot(rs, its, g) ==
  asArray([r \in 1..Len(rs) |->
     IF g <= Len(rs[r].snap) /\ rs[r].snap[g].st = "live"
       THEN [rs[r] EXCEPT !.snap[g].st = frozen(its[g].status)]
       ELSE rs[r]])

\* What follows a task's end: the next batch when it was the last of its
\* batch to end (line 125), and setStep(DONE) after the last batch (line 128).
afterTask(its, rs, r, k, newStep) ==
  LET run1 == [rs[r] EXCEPT !.pcs[k] = "done",
                            !.snap[rs[r].base + k - 1] = spentEntry]
      allDone == \A j \in 1..Len(run1.pcs) : run1.pcs[j] = "done"
      res == IF allDone THEN startBatches(its, run1, run1.base + BATCH_SIZE)
             ELSE [items |-> its, run |-> run1, fin |-> FALSE, crash |-> FALSE]
  IN  [items |-> res.items,
       runs |-> IF res.fin THEN removeRun(rs, r) ELSE [rs EXCEPT ![r] = res.run],
       step |-> IF res.fin THEN "DONE" ELSE newStep,
       crash |-> res.crash]

\* The detection call rejects: the catch block (lines 112-119) writes
\* 'error' in place, the finally block counts the task.
TaskRejected(r, k) ==
  LET g == runs[r].base + k - 1
  IN  /\ ~crashed
      /\ runs[r].pcs[k] = "awaiting"
      /\ IF hasHole(items) \/ g > Len(items)
           THEN /\ crashed' = TRUE
                /\ event' = None
                /\ UNCHANGED <<items, step, progress, runs>>
           ELSE LET its1 == [items EXCEPT ![g].status = "error"]
                    nxt == afterTask(its1, runs, r, k, step)
                IN  /\ items' = nxt.items
                    /\ runs' = nxt.runs
                    /\ step' = nxt.step
                    /\ crashed' = nxt.crash
                    /\ progress' = [progress EXCEPT !.current = @ + 1]
                    /\ event' = Some([slot |-> g, detected |-> None,
                                      cleaned |-> FALSE])
      /\ ppt' = None
      /\ UNCHANGED <<download, presses, hexVars, fontVars, boxVars>>

\* The detection call resolves with els; the cleaning call resolves
\* (cleanOk) or rejects and is replaced by undefined (lines 94-97).
TaskCompleted(r, k) ==
  LET g == runs[r].base + k - 1
      file == runs[r].snap[g].file[1]
  IN  /\ ~crashed
      /\ runs[r].pcs[k] = "awaiting"
      /\ \E els \in AppDetections, cleanOk \in BOOLEAN :
           IF hasHole(items)
             THEN /\ crashed' = TRUE
                  /\ event' = None
                  /\ UNCHANGED <<items, step, progress, runs>>
             ELSE LET bg == IF cleanOk THEN Some(cleanedData(file)) ELSE None
                      its1 == assignSlot(items, g,
                                completedItem(items, g, file, els, bg))
                      rs1 == IF g <= Len(items)
                               THEN freezeSlot(runs, items, g) ELSE runs
                      nxt == afterTask(its1, rs1, r, k, step)
                  IN  /\ items' = nxt.items
                      /\ runs' = nxt.runs
                      /\ step' = nxt.step
                      /\ crashed' = nxt.crash
                      /\ progress' = [progress EXCEPT !.current = @ + 1]
                      /\ event' = Some([slot |-> g, detected |-> Some(els),
                                        cleaned |-> cleanOk])
      /\ ppt' = None
      /\ UNCHANGED <<download, presses, hexVars, fontVars, boxVars>>

(***************************************************************************)
(* handleDownload (lines 131-141).  generatePPT works on the items of the  *)
(* render the button was clicked in; what it builds is fixed by them and   *)
(* by which file reads fail.                                               *)
(***************************************************************************)
\* The positions whose slide needs fileToBase64 of a file that is there.
readPositions(images) ==
  {i \in 1..Len(images) :
     /\ images[i].status = "completed"
     /\ TruthyNum(images[i].width) /\ TruthyNum(images[i].height)
     /\ images[i].elements # None
     /\ images[i].cleanBackgroundBase64 = None
     /\ images[i].file # None}

\* Whether generatePPT reaches an await before it returns or throws: the
\* file read of a slide without cleaned background, or writeFile.
RECURSIVE awaitsBeforeThrow(_, _)
awaitsBeforeThrow(images, v) ==
  IF v = <<>> THEN TRUE
  ELSE LET img == images[Head(v)]
       IN  IF img.elements = None THEN awaitsBeforeThrow(images, Tail(v))
           ELSE IF img.cleanBackgroundBase64 = None THEN TRUE
           ELSE IF imageThrows(img) THEN FALSE
           ELSE awaitsBeforeThrow(images, Tail(v))

generateAwaits(images) ==
  validImages(images) # <<>> /\ awaitsBeforeThrow(images, validImages(images))

\* The Download button (lines 253-260): shown when not canProcess,
\* disabled when nothing is completed or a generation is under way.
HandleDownload ==
  /\ ~crashed
  /\ Len(items) > 0
  /\ ~canProcess
  /\ canDownload
  /\ step # "GENERATING"
  /\ presses < MaxPresses
  /\ presses' = presses + 1
  /\ \E readFails \in SUBSET readPositions(items) :
       LET call == [images |-> items, readFails |-> readFails]
       IN  IF generateAwaits(items)
             THEN /\ step' = "GENERATING"
                  /\ download' = Some(call)
                  /\ ppt' = None
                  /\ event' = None
             ELSE /\ step' = "DONE"
                  /\ download' = None
                  /\ ppt' = Some(call)
                  /\ event' = None
  /\ UNCHANGED <<items, progress, runs, crashed, hexVars, fontVars, boxVars>>

\* generatePPT settles: the finally block (line 139).
DownloadSettled ==
  /\ ~crashed
  /\ download # None
  /\ step' = "DONE"
  /\ ppt' = download
  /\ event' = None
  /\ download' = None
  /\ UNCHANGED <<items, progress, runs, crashed, presses, hexVars, fontVars, boxVars>>

\* What the generatePPT call that has just settled returned.
presentation == generatePPT(ppt[1].images, ppt[1].readFails)

Init == AppIdle /\ HexIdle /\ FontIdle /\ BoxIdle

Next ==
  \/ HandleFilesSelected
  \/ HandleClear
  \/ ProcessImages
  \/ \E r \in 1..Len(runs) : \E k \in 1..Len(runs[r].pcs) : TaskRejected(r, k)
  \/ \E r \in 1..Len(runs) : \E k \in 1..Len(runs[r].pcs) : TaskCompleted(r, k)
  \/ HandleDownload
  \/ DownloadSettled

Spec == Init /\ [][Next]_vars

(***************************************************************************)
(* processImages alone, on items that have just been dropped: the Process  *)
(* button and the tasks of the runs it starts, with more than one batch.   *)
(***************************************************************************)
MaxBatchItems == 4

InitBatch ==
  /\ \E n \in 1..MaxBatchItems :
       \E files \in [1..n -> AppFiles] :
         items = asArray([k \in 1..n |-> newItem(files[k])])
  /\ step = "IDLE"
  /\ progress = [current |-> 0, total |-> 0]
  /\ runs = <<>>
  /\ presses = 0
  /\ crashed = FALSE
  /\ download = None
  /\ ppt = None
  /\ event = None
  /\ HexIdle
  /\ FontIdle
  /\ BoxIdle

NextBatch ==
  \/ ProcessImages
  \/ \E r \in 1..Len(runs) : \E k \in 1..Len(runs[r].pcs) : TaskRejected(r, k)
  \/ \E r \in 1..Len(runs) : \E k \in 1..Len(runs[r].pcs) : TaskCompleted(r, k)

SpecBatch == InitBatch /\ [][NextBatch]_vars

(***************************************************************************)
(* processImages with the services answering: every call that has been     *)
(* sent is answered in the end, with a result or with a rejection.  The    *)
(* load event of a preview image that cannot be decoded never fires, and   *)
(* nobody has to press a button.                                           *)
(***************************************************************************)
TaskSettles ==
  \E r \in 1..Len(runs) : \E k \in 1..Len(runs[r].pcs) :
    TaskRejected(r, k) \/ TaskCompleted(r, k)

SpecBatchFair == InitBatch /\ [][NextBatch]_vars /\ WF_vars(TaskSettles)

(***************************************************************************)
(* generatePPT alone, called on a batch of processed images: any status,   *)
(* any recorded dimensions, any detection result, with or without cleaned  *)
(* background.                                                             *)
(***************************************************************************)
MaxImages == 2

PptDims == {<<1600, 900>>, <<4, 3>>, <<0, 900>>, <<-1600, 900>>}

PptElementLists ==
  {<<>>, <<elBox, elPlain>>, <<elPlain, elBoxNoColor>>, <<elBroken>>}

pptFile(d) == [name |-> "slide.png", w |-> d[1], h |-> d[2], loads |-> TRUE]

PptImages ==
  {[file |-> Some(pptFile(d)), status |-> "completed",
    width |-> d[1], height |-> d[2], elements |-> e,
    cleanBackgroundBase64 |->
      IF cleaned THEN Some(cleanedData(pptFile(d))) ELSE None] :
      d \in PptDims,
      e \in {None} \cup {Some(l) : l \in PptElementLists},
      cleaned \in BOOLEAN}
  \cup {[newItem(pptFile(<<1600, 900>>)) EXCEPT !.status = "error"]}

InitPPT ==
  /\ items \in UNION {[1..n -> PptImages] : n \in 0..MaxImages}
  /\ step = "DONE"
  /\ progress = [current |-> 0, total |-> 0]
  /\ runs = <<>>
  /\ presses = 0
  /\ crashed = FALSE
  /\ download = None
  /\ ppt = None
  /\ event = None
  /\ HexIdle
  /\ FontIdle
  /\ BoxIdle

\* generatePPT(items) runs to its end; the file reads at readFails reject.
GeneratePPTCall ==
  /\ ppt = None
  /\ \E readFails \in SUBSET readPositions(items) :
       ppt' = Some([images |-> items, readFails |-> readFails])
  /\ UNCHANGED <<items, step, progress, runs, presses, crashed, download,
                 event, hexVars, fontVars, boxVars>>

NextPPT == GeneratePPTCall

SpecPPT == InitPPT /\ [][NextPPT]_vars

(***************************************************************************)
(* One iteration of elements.forEach alone (lines 145-235): an element     *)
(* with any region whose coordinates are multiples of                      *)
(* 1000 / MaxRegionSteps (and the region 100, 100, 300, 400, and a small   *)
(* one for which the paddings take their minimum), with or without a       *)
(* container, on the canvas of a landscape, a 4:3 or a portrait  *)
(* image.                                                                  *)
(***************************************************************************)
MaxRegionSteps == 3

RegionCoords ==
  {(REGION_SCALE * k) \div MaxRegionSteps : k \in 0..MaxRegionSteps}

Regions ==
  {<<t, l, b, r>> : t \in RegionCoords, l \in RegionCoords,
                    b \in RegionCoords, r \in RegionCoords}
  \cup {<<100, 100, 300, 400>>, <<500, 500, 510, 520>>}

\* A container with its own colour, half transparent, and a descriptor
\* without container for which the service gave container properties anyway.
elBoxTinted ==
  [elBox EXCEPT !.containerColor = Some(<<"#", "1", "2", "3", "4", "5", "6">>),
                !.containerOpacity = Some(<<1, 2>>),
                !.strokeColor = Some(<<"F", "0", "0">>)]
elPlainWithColor ==
  [elPlain EXCEPT !.containerColor = Some(<<"#", "F", "F", "F">>),
                  !.containerOpacity = Some(R(1))]

BoxStyles == {elPlain, elPlainWithColor, elBox, elBoxNoColor, elBoxTinted}

BoxImageDims == {<<1600, 900>>, <<4, 3>>, <<900, 1600>>}

InitBox ==
  /\ AppIdle /\ HexIdle /\ FontIdle
  /\ boxIn \in {Some([el |-> [st EXCEPT !.box_2d = Some(rg)],
                      slideH |-> slideHeightOf([width |-> d[1],
                                                height |-> d[2]])]) :
                  st \in BoxStyles, rg \in Regions, d \in BoxImageDims}
  /\ boxOut = None

\* The callback of forEach on boxIn's element: the projected x, y, w, h of
\* lines 148-151 and the options handed to slide.addText.
AddTextCall ==
  /\ boxOut = None
  /\ boxOut' = Some([projected |-> projectedBox(boxIn[1].el,
                                                R(SLIDE_WIDTH_IN),
                                                boxIn[1].slideH),
                     textOptions |-> textBox(boxIn[1].el, R(SLIDE_WIDTH_IN),
                                             boxIn[1].slideH)])
  /\ UNCHANGED <<appVars, hexVars, fontVars, boxIn>>

NextBox == AddTextCall

SpecBox == InitBox /\ [][NextBox]_vars

(***************************************************************************)
(* Claims about cleanHex (checked under SpecHex).                          *)
(***************************************************************************)
\* A 3-digit or 6-digit hexadecimal colour, with or without one '#'.  The
\* input is granted the normalisation cleanHex itself applies (one '#' taken
\* out wherever it stands, white space trimmed), so that an input counted as
\* "not a colour" here is not one under any reading of the claim.
IsHexColour(hex) ==
  /\ hex # None
  /\ LET u == Trim(ReplaceFirst(hex[1], "#"))
     IN  /\ Len(u) \in {3, 6}
         /\ \A i \in 1..Len(u) : HexVal(u[i]) >= 0

\* C6: every input that is not a 3-digit or 6-digit hexadecimal colour
\* resolves to "000000".
C6_NonHexResolvesToBlack ==
  (hexOut # None /\ ~IsHexColour(hexIn)) => hexOut[1] = Str000000

\* C7: cleanHex is idempotent: cleanHex(cleanHex(x)) = cleanHex(x).
C7_CleanHexIdempotent ==
  hexOut # None => cleanHex(Some(hexOut[1])) = hexOut[1]

(***************************************************************************)
(* Claims about calculateFontSize (checked under SpecFont).                *)
(***************************************************************************)
SameButLines(e1, e2) ==
  e1.hasContainer = e2.hasContainer /\ e1.fontWeight = e2.fontWeight

\* C10: the font size never decreases with the box height for a fixed line
\* count, never increases with the line count for a fixed box height, is
\* never larger bold than not bold, and is never below 9 points, for every
\* box height, zero and negative ones included.
C10_FontSizeMonotoneAndClamped ==
  fontOut # None =>
    LET el == fontIn[1].el
        h == fontIn[1].h
        size == fontOut[1]
    IN  /\ \A h2 \in FontHeights :
             RLe(h, h2) => RLe(size, calculateFontSize(el, h2))
        /\ \A e2 \in FontElements :
             (SameButLines(el, e2) /\ SplitLines(el.text) <= SplitLines(e2.text))
               => RLe(calculateFontSize(e2, h), size)
        /\ RLe(calculateFontSize([el EXCEPT !.fontWeight = "bold"], h),
               calculateFontSize([el EXCEPT !.fontWeight = "normal"], h))
        /\ RLe(R(MIN_FONT_PT), size)

\* A bold two-line element whose computed size is above the minimum.
C10_Witness ==
  /\ fontOut # None
  /\ fontIn[1].el.fontWeight = "bold"
  /\ SplitLines(fontIn[1].el.text) = 2
  /\ RLt(R(MIN_FONT_PT), fontOut[1])

(***************************************************************************)
(* Claims about generatePPT (checked under SpecPPT).                       *)
(***************************************************************************)
\* The call that has settled: its images, and the image and the detected
\* elements a slide of its presentation was built from.
calledImages == ppt[1].images
slideImage(s) == calledImages[s.source]
slideElements(s) == slideImage(s).elements[1]
hasSlide(j) ==
  \E k \in 1..Len(presentation.slides) : presentation.slides[k].source = j

\* An image generatePPT is given to reconstruct: completed, with a detection
\* result.
reconstructible(img) == img.status = "completed" /\ img.elements # None
positiveDims(img) == img.width > 0 /\ img.height > 0

\* C1: in a batch whose images all have positive dimensions, the slide of
\* each image has a canvas of width 10 and of height 10 times that image's
\* own height divided by its own width.
C1_CanvasFromOwnDimensions ==
  (ppt # None /\ \A j \in 1..Len(calledImages) : positiveDims(calledImages[j]))
    => \A k \in 1..Len(presentation.slides) :
         LET s == presentation.slides[k]
             img == slideImage(s)
         IN  /\ s.canvasW = R(10)
             /\ s.canvasH = RMul(R(10), RNorm(img.height, img.width))

\* C2: an image whose width or height is zero or negative gets no slide and
\* no canvas is derived from it, and (in a batch where no element faults)
\* every other reconstructible image of positive dimensions still gets its
\* slide.
C2_InvalidDimensionsAbortOnlyThatImage ==
  (ppt # None /\ \A j \in 1..Len(calledImages) : ~imageThrows(calledImages[j]))
    => \A i \in 1..Len(calledImages) :
         (reconstructible(calledImages[i]) /\ ~positiveDims(calledImages[i]))
           => /\ ~hasSlide(i)
              /\ validImages(calledImages) # <<>>
                   => validImages(calledImages)[1] # i
              /\ \A j \in 1..Len(calledImages) :
                   (reconstructible(calledImages[j])
                      /\ positiveDims(calledImages[j])) => hasSlide(j)

\* Whether the slide's image has neither a cleaned background nor a source
\* file that can be read.
noBackgroundData(s) ==
  /\ slideImage(s).cleanBackgroundBase64 = None
  /\ readRejects(calledImages, s.source, ppt[1].readFails)

\* The objects of slide s from position n + 1 on are the text boxes of its
\* image's elements, one per element, in the order of the elements.
textBoxesFollow(s, n) ==
  /\ Len(s.objects) = n + Len(slideElements(s))
  /\ \A k \in 1..Len(slideElements(s)) :
       s.objects[n + k] = textBox(slideElements(s)[k], s.canvasW, s.canvasH)

\* C3 (as amended): the objects of a slide are the background image first,
\* unless the image has no cleaned background and its source file cannot be
\* read, and then exactly one text box per element in the order of the
\* elements; without background data the slide holds the text boxes only.
C3_BackgroundThenTextBoxesInOrder ==
  ppt # None =>
    \A k \in 1..Len(presentation.slides) :
      LET s == presentation.slides[k]
      IN  IF noBackgroundData(s)
            THEN textBoxesFollow(s, 0)
            ELSE /\ s.objects # <<>>
                 /\ s.objects[1].kind = "image"
                 /\ textBoxesFollow(s, 1)

\* C3 as stated: the first object of every slide is the background and the
\* text boxes follow, so that an empty element list gives one object.
C3_BackgroundAlwaysFirst ==
  ppt # None =>
    \A k \in 1..Len(presentation.slides) :
      LET s == presentation.slides[k]
      IN  /\ s.objects # <<>>
          /\ s.objects[1].kind = "image"
          /\ textBoxesFollow(s, 1)

\* A slide with its background and the text boxes of two different elements,
\* next to a slide that has no background data and an empty element list.
C3_Witness ==
  /\ ppt # None
  /\ \E k \in 1..Len(presentation.slides) :
       LET s == presentation.slides[k]
       IN  /\ Len(s.objects) = 3
           /\ s.objects[1].kind = "image"
           /\ s.objects[2].kind = "text"
           /\ s.objects[2] # s.objects[3]
  /\ \E k \in 1..Len(presentation.slides) :
       LET s == presentation.slides[k]
       IN  noBackgroundData(s) /\ s.objects = <<>>

\* C4: a fault while one image's slide is built costs only that image its
\* slide: every other reconstructible image of positive dimensions, none of
\* whose own elements faults, gets its slide.
C4_SlideFaultAffectsOnlyThatImage ==
  ppt # None =>
    \A j \in 1..Len(calledImages) :
      (/\ reconstructible(calledImages[j])
       /\ positiveDims(calledImages[j])
       /\ ~imageThrows(calledImages[j])) => hasSlide(j)

\* C8: the text box of an element with a container carries a fill, and when
\* the element has no containerColor the fill's colour is "FFFFFF".
C8_MissingContainerColorFillsWhite ==
  ppt # None =>
    \A k \in 1..Len(presentation.slides) :
      LET s == presentation.slides[k]
          n == Len(s.objects) - Len(slideElements(s))
      IN  \A e \in 1..Len(slideElements(s)) :
            LET el == slideElements(s)[e]
            IN  el.hasContainer =>
                  /\ s.objects[n + e].fill # None
                  /\ el.containerColor = None
                       => s.objects[n + e].fill[1].color = StrFFFFFF

(***************************************************************************)
(* Claims about the App component (C5 checked under Spec, C9 under         *)
(* SpecBatch).                                                             *)
(***************************************************************************)
\* The text boxes of slide s are all there, after the n objects before them,
\* and with n = 1 the object before them is the image's own source file.
ownOriginalThenTextBoxes(s, n) ==
  /\ n = 1 => /\ s.objects # <<>>
              /\ s.objects[1].kind = "image"
              /\ s.objects[1].data = originalData(slideImage(s).file[1])
  /\ textBoxesFollow(s, n)

\* C5 (as amended): when the cleaning call fails and the detection call
\* succeeds, the image is left completed with the detected elements and
\* without cleaned background; the slide of an image without cleaned
\* background has the image's own source file as background when that file
\* can be read and no background when it cannot, and in both cases all its
\* text boxes.
C5_CleaningFailureKeepsImage ==
  /\ (event # None /\ event[1].detected # None /\ ~event[1].cleaned)
       => LET it == items[event[1].slot]
          IN  /\ it.status = "completed"
              /\ it.elements = event[1].detected
              /\ it.cleanBackgroundBase64 = None
  /\ ppt # None =>
       \A k \in 1..Len(presentation.slides) :
         LET s == presentation.slides[k]
         IN  slideImage(s).cleanBackgroundBase64 = None =>
               ownOriginalThenTextBoxes(s, IF noBackgroundData(s) THEN 0 ELSE 1)

\* C5 as stated: the slide of an image without cleaned background always
\* has the original source image as its background.
C5_OriginalAlwaysBackground ==
  ppt # None =>
    \A k \in 1..Len(presentation.slides) :
      LET s == presentation.slides[k]
      IN  slideImage(s).cleanBackgroundBase64 = None =>
            ownOriginalThenTextBoxes(s, 1)

\* The download of an image whose cleaning call failed: its slide has the
\* source file as background and the text boxes of the two detected elements.
C5_Witness ==
  /\ ppt # None
  /\ \E k \in 1..Len(presentation.slides) :
       LET s == presentation.slides[k]
       IN  /\ slideImage(s).cleanBackgroundBase64 = None
           /\ slideImage(s).status = "completed"
           /\ Len(s.objects) = 3
           /\ s.objects[1].kind = "image"
           /\ s.objects[1].data.from = "original"
           /\ s.objects[2].kind = "text"

\* The slots whose image is being processed by a task that has not settled.
inFlight ==
  {g \in 1..Len(items) :
     /\ items[g].status = "processing"
     /\ \E r \in 1..Len(runs) : \E k \in 1..Len(runs[r].pcs) :
          runs[r].base + k - 1 = g /\ runs[r].pcs[k] = "awaiting"}

\* C9: at most BATCH_SIZE images are in flight at any moment, also when the
\* Process button is pressed while a run is under way.
C9_AtMostBatchSizeInFlight == Cardinality(inFlight) <= BATCH_SIZE

(***************************************************************************)
(* Claims about one text box (checked under SpecBox).                      *)
(***************************************************************************)
\* The factors by which inflatedBox grows the projected box p of el.
growthW(el, p) == RDiv(inflatedBox(el, p).w, p.w)
growthH(el, p) == RDiv(inflatedBox(el, p).h, p.h)

withContainer(el) == [el EXCEPT !.hasContainer = TRUE]
withoutContainer(el) == [el EXCEPT !.hasContainer = FALSE]

\* C11: when the projected box has w > 0 and h > 0, the final box is
\* strictly wider and strictly taller than the projected box, with and
\* without a container, and the growth factor without a container is
\* smaller than the growth factor with a container, in each dimension.
C11_InflationStrictlyGrows ==
  (boxOut # None
     /\ RLt(R(0), boxOut[1].projected.w) /\ RLt(R(0), boxOut[1].projected.h))
    => LET p == boxOut[1].projected
           el == boxIn[1].el
           b == boxOut[1].textOptions
       IN  /\ RLt(p.w, b.w) /\ RLt(p.h, b.h)
           /\ RLt(p.w, inflatedBox(withContainer(el), p).w)
           /\ RLt(p.h, inflatedBox(withContainer(el), p).h)
           /\ RLt(p.w, inflatedBox(withoutContainer(el), p).w)
           /\ RLt(p.h, inflatedBox(withoutContainer(el), p).h)
           /\ RLt(growthW(withoutContainer(el), p), growthW(withContainer(el), p))
           /\ RLt(growthH(withoutContainer(el), p), growthH(withContainer(el), p))

\* The box of a small container, whose paddings are the minimum ones, 0.05
\* and 0.02 on each side.
C11_Witness ==
  /\ boxOut # None
  /\ RLt(R(0), boxOut[1].projected.w) /\ RLt(R(0), boxOut[1].projected.h)
  /\ boxIn[1].el.hasContainer
  /\ boxOut[1].textOptions.w = RAdd(boxOut[1].projected.w, <<1, 10>>)
  /\ boxOut[1].textOptions.h = RAdd(boxOut[1].projected.h, <<1, 25>>)

\* The element of the example: "Hello\nWorld" in the region 100, 100, 300,
\* 400, bold, centred, in a container "#FFF" of opacity 1, on the canvas of
\* a 1600x900 image.
exampleCase ==
  /\ boxOut # None
  /\ boxIn[1].el = elBox
  /\ boxIn[1].slideH = slideHeightOf([width |-> 1600, height |-> 900])

\* C12: for the example element on a 1600x900 source the canvas height is
\* 5.625, the projected box is x = 1, y = 0.5625, w = 3, h = 1.125, the
\* final box is larger in both dimensions, the fill is FFFFFF with
\* transparency 0, and the font size is the height per line of the final
\* box over 2 lines, times 0.70, times 0.95 for bold (29.62575 points), which
\* is at least 9.
C12_EndToEndExample ==
  exampleCase =>
    LET p == boxOut[1].projected
        b == boxOut[1].textOptions
        perLine == RDiv(RMul(b.h, R(72)), R(2))
    IN  /\ boxIn[1].slideH = <<45, 8>>
        /\ p = [x |-> R(1), y |-> <<9, 16>>, w |-> R(3), h |-> <<9, 8>>]
        /\ RLt(p.w, b.w) /\ RLt(p.h, b.h)
        /\ b.fill # None
        /\ b.fill[1].color = StrFFFFFF
        /\ b.fill[1].transparency = R(0)
        /\ b.fontSize = RMul(RMul(perLine, <<7, 10>>), <<19, 20>>)
        /\ b.fontSize = <<118503, 4000>>
        /\ RLe(R(9), b.fontSize)
        /\ b.bold /\ b.align = "center" /\ b.text = elBox.text

\* The example's text box has been computed.
C12_Witness == exampleCase /\ boxOut[1].textOptions.shape = Some("roundRect")

\* The projection of region rg (top, left, bottom, right) on boxIn's canvas.
projectionOf(rg) ==
  projectedBox([boxIn[1].el EXCEPT !.box_2d = Some(rg)],
               R(SLIDE_WIDTH_IN), boxIn[1].slideH)

boxSum(p, q) ==
  [x |-> RAdd(p.x, q.x), y |-> RAdd(p.y, q.y),
   w |-> RAdd(p.w, q.w), h |-> RAdd(p.h, q.h)]
boxTimes(k, p) ==
  [x |-> RMul(R(k), p.x), y |-> RMul(R(k), p.y),
   w |-> RMul(R(k), p.w), h |-> RMul(R(k), p.h)]
regionSum(a, b) == <<a[1] + b[1], a[2] + b[2], a[3] + b[3], a[4] + b[4]>>
regionTimes(k, a) == <<k * a[1], k * a[2], k * a[3], k * a[4]>>

\* The regions added to boxIn's region to try the projection of a sum.
Summands ==
  {<<a, b, b, a>> : a \in RegionCoords, b \in RegionCoords}
  \cup {<<100, 100, 300, 400>>, <<500, 500, 510, 520>>}

\* C13: the projected box of the region (top, left, bottom, right) is
\* x = left/1000 * canvasWidth, y = top/1000 * canvasHeight,
\* w = (right-left)/1000 * canvasWidth, h = (bottom-top)/1000 * canvasHeight;
\* the projection is linear in the region (it maps sums to sums and
\* multiples to multiples), and right > left and bottom > top give w > 0
\* and h > 0.
C13_ProjectionLinear ==
  boxOut # None =>
    LET rg == boxIn[1].el.box_2d[1]
        top == rg[1]
        left == rg[2]
        bottom == rg[3]
        right == rg[4]
        canvasWidth == R(10)
        canvasHeight == boxIn[1].slideH
        p == boxOut[1].projected
    IN  /\ p.x = RMul(RDiv(R(left), R(1000)), canvasWidth)
        /\ p.y = RMul(RDiv(R(top), R(1000)), canvasHeight)
        /\ p.w = RMul(RDiv(R(right - left), R(1000)), canvasWidth)
        /\ p.h = RMul(RDiv(R(bottom - top), R(1000)), canvasHeight)
        /\ \A rg2 \in Summands :
             projectionOf(regionSum(rg, rg2)) = boxSum(p, projectionOf(rg2))
        /\ \A k \in 0..3 : projectionOf(regionTimes(k, rg)) = boxTimes(k, p)
        /\ right > left => RLt(R(0), p.w)
        /\ bottom > top => RLt(R(0), p.h)

\* A region whose four coordinates differ, projected on a portrait canvas
\* to a box of positive width and height.
C13_Witness ==
  /\ boxOut # None
  /\ LET rg == boxIn[1].el.box_2d[1]
     IN  /\ Cardinality({rg[1], rg[2], rg[3], rg[4]}) = 4
         /\ rg[4] > rg[2] /\ rg[3] > rg[1]
  /\ RLt(R(SLIDE_WIDTH_IN), boxIn[1].slideH)
  /\ RLt(R(0), boxOut[1].projected.w)
  /\ RLt(R(0), boxOut[1].projected.h)

\* C14: the text box of an element with hasContainer = false carries no
\* fill, no border, no shadow and no shape kind, whatever container
\* properties the element has; the text box of an element with
\* hasContainer = true carries the rounded-rectangle shape, a fill, the
\* fixed border and the fixed drop shadow.
C14_StylingSelectedByHasContainer ==
  boxOut # None =>
    LET el == boxIn[1].el
        b == boxOut[1].textOptions
    IN  IF el.hasContainer
          THEN /\ b.shape = Some("roundRect")
               /\ b.fill # None
               /\ b.line = Some([color |-> Str888888, width |-> <<1, 2>>,
                                 transparency |-> 50])
               /\ b.shadow = Some([type |-> "outer", color |-> Str000000,
                                   opacity |-> <<3, 10>>, blur |-> 3,
                                   offset |-> 2])
          ELSE /\ b.shape = None
               /\ b.fill = None
               /\ b.line = None
               /\ b.shadow = None

\* Plain text whose descriptor has container properties all the same: its
\* text box has no fill.
C14_Witness ==
  /\ boxOut # None
  /\ ~boxIn[1].el.hasContainer
  /\ boxIn[1].el.containerColor # None
  /\ boxOut[1].textOptions.fill = None
  /\ boxOut[1].textOptions.shape = None

(***************************************************************************)
(* Claims about processImages (checked under SpecBatchFair, SpecBatch and  *)
(* Spec).                                                                  *)
(***************************************************************************)
noneProcessing == \A g \in 1..Len(items) : items[g].status # "processing"

\* C15: every run of processImages finishes in the end, with step = DONE
\* and none of its images left in 'processing', also when a preview image
\* fails to load.
C15_EveryRunFinishes ==
  (runs # <<>>) ~> (runs = <<>> /\ step = "DONE" /\ noneProcessing)

\* Whether a task that has not settled is processing slot g of its.
awaited(rs, g) ==
  \E r \in 1..Len(rs) : \E k \in 1..Len(rs[r].pcs) :
    rs[r].base + k - 1 = g /\ rs[r].pcs[k] = "awaiting"

\* C16: where the Clear button is not pressed, an image that has status
\* 'completed' keeps its status, its elements and its background in every
\* step, and no task that has not settled is processing it.
C16_CompletedIsAbsorbing ==
  [][\A g \in 1..Len(items) :
       items[g].status = "completed"
         => /\ g <= Len(items')
            /\ items'[g] = items[g]
            /\ ~awaited(runs', g)]_vars

\* C17: in every state where an image has status 'processing', step is
\* ANALYZING.
C17_ProcessingImpliesAnalyzing == ~noneProcessing => step = "ANALYZING"

\* C18: progress.current never exceeds progress.total, and when a run of
\* processImages ends, progress.current equals progress.total.
C18_ProgressWithinTotal ==
  /\ [](progress.current <= progress.total)
  /\ [][Len(runs') < Len(runs) => progress'.current = progress'.total]_vars

=============================================================================
